---- MODULE Spec2Model ----
(***************************************************************************)
(* Model of the parser context bookkeeping of src/src/parser/context.ts:   *)
(* the session State (root handle, NodeIdMap.Collection, idCounter,        *)
(* leafNodeIds), the context Node objects, and the operations              *)
(* startContext, endContext and deleteContext.                             *)
(*                                                                         *)
(* A Node is a mutable object that the driver keeps a handle to even after *)
(* the state dropped it from contextNodeById, so the model keeps every     *)
(* Node object ever created in state.nodes, keyed by its id, and a handle  *)
(* to a Node is its id.  The readonly fields kind, tokenIndexStart and     *)
(* maybeTokenStart are never read by the operations and are left out.      *)
(*                                                                         *)
(* An operation is an operator from a state and its arguments to a record  *)
(* [state, ret, err]: the state the call leaves behind (also when it       *)
(* throws, since the mutations done before a throw stay), the value it     *)
(* returns and whether it threw CommonError.InvariantError.                *)
(***************************************************************************)
EXTENDS Integers, Sequences, FiniteSets, TLC

\* Bound on the number of startContext calls of a session.
MaxId == 3

\* Option<T>: undefined, for a node handle or an id (ids start at 1).
Undefined == 0
\* Option<number>: undefined, for maybeAttributeIndex (indexes start at 0).
NoIndex == 0 - 1

Ids == 1..MaxId

----------------------------------------------------------------------------
(* Map<K, V> and ReadonlyArray helpers, as the JavaScript built-ins behave. *)

EmptyMap == << >>

MapHas(m, k) == k \in DOMAIN m

\* Map.prototype.get: the value, or undefined.
MapGet(m, k) == IF k \in DOMAIN m THEN m[k] ELSE Undefined

\* Map.prototype.set
MapSet(m, k, v) == [x \in (DOMAIN m) \cup {k} |-> IF x = k THEN v ELSE m[x]]

\* Map.prototype.delete
MapDelete(m, k) == [x \in (DOMAIN m) \ {k} |-> m[x]]

\* Array.prototype.indexOf: the 0-based index of the first occurrence, or -1.
IndexOf(arr, x) ==
    IF \E i \in 1..Len(arr) : arr[i] = x
    THEN (CHOOSE i \in 1..Len(arr) :
              /\ arr[i] = x
              /\ \A j \in 1..(i - 1) : arr[j] # x) - 1
    ELSE 0 - 1

\* Array.prototype.slice(from, to), 0-based, `to` exclusive.
Slice(arr, from, to) == SubSeq(arr, from + 1, to)

----------------------------------------------------------------------------
(* The session state. *)

empty ==
    [ root |-> [maybeNode |-> Undefined],
      nodeIdMapCollection |->
          [ astNodeById |-> EmptyMap,
            contextNodeById |-> EmptyMap,
            parentIdById |-> EmptyMap,
            childIdsById |-> EmptyMap ],
      idCounter |-> 0,
      leafNodeIds |-> << >>,
      nodes |-> EmptyMap ]

Return(state, ret) == [state |-> state, ret |-> ret, err |-> FALSE]

\* throw new CommonError.InvariantError(...): the state as mutated so far stays.
Throw(state) == [state |-> state, ret |-> Undefined, err |-> TRUE]

----------------------------------------------------------------------------
(* NodeIdMap lookups (src/parser/nodeIdMap is not part of the sources at   *)
(* hand): each returns the requested entity or fails with InvariantError.  *)

expectChildIds(childIdsById, nodeId) ==
    IF MapHas(childIdsById, nodeId)
    THEN [value |-> childIdsById[nodeId], err |-> FALSE]
    ELSE [value |-> << >>, err |-> TRUE]

expectContextNode(contextNodeById, nodeId) ==
    IF MapHas(contextNodeById, nodeId)
    THEN [value |-> contextNodeById[nodeId], err |-> FALSE]
    ELSE [value |-> Undefined, err |-> TRUE]

\* kind is "Ast" or "Context": the realm the id currently lives in.
expectXorNode(nodeIdMapCollection, nodeId) ==
    IF MapHas(nodeIdMapCollection.astNodeById, nodeId)
    THEN [kind |-> "Ast", err |-> FALSE]
    ELSE IF MapHas(nodeIdMapCollection.contextNodeById, nodeId)
         THEN [kind |-> "Context", err |-> FALSE]
         ELSE [kind |-> "None", err |-> TRUE]

----------------------------------------------------------------------------
(* startContext *)

\* A faulty nextNodeId: the lowest id no live node uses, so the id of a
\* deleted node is issued again.
nextNodeIdReusing(state) ==
    CHOOSE id \in 1..(state.idCounter + 1) :
        /\ ~MapHas(state.nodeIdMapCollection.astNodeById, id)
        /\ ~MapHas(state.nodeIdMapCollection.contextNodeById, id)
        /\ \A lower \in 1..(id - 1) :
               \/ MapHas(state.nodeIdMapCollection.astNodeById, lower)
               \/ MapHas(state.nodeIdMapCollection.contextNodeById, lower)

\* A faulty appendChildId: the new child goes to the front of the list.
prependChildId(existingChildren, nodeId) == <<nodeId>> \o existingChildren

\* Line 95: [...existingChildren, nodeId].
appendChildId(existingChildren, nodeId) == existingChildren \o <<nodeId>>

\* Line 77: the id of the Node being started.
nextNodeId(state) == state.idCounter + 1

startContext(state, maybeParentNode) ==
    LET nodeIdMapCollection == state.nodeIdMapCollection
        nodeId == nextNodeId(state)
        hasParent == maybeParentNode # Undefined
        parentId == maybeParentNode
        maybeAttributeIndex ==
            IF hasParent THEN state.nodes[maybeParentNode].attributeCounter
            ELSE NoIndex
        nodes1 ==
            IF hasParent
            THEN [state.nodes EXCEPT ![maybeParentNode].attributeCounter = @ + 1]
            ELSE state.nodes
        parentIdById1 ==
            IF hasParent
            THEN MapSet(nodeIdMapCollection.parentIdById, nodeId, parentId)
            ELSE nodeIdMapCollection.parentIdById
        childIdsById == nodeIdMapCollection.childIdsById
        childIdsById1 ==
            IF hasParent
            THEN IF MapHas(childIdsById, parentId)
                 THEN MapSet(childIdsById, parentId,
                             appendChildId(childIdsById[parentId], nodeId))
                 ELSE MapSet(childIdsById, parentId, <<nodeId>>)
            ELSE childIdsById
        node == [ id |-> nodeId,
                  attributeCounter |-> 0,
                  maybeAstNode |-> Undefined,
                  maybeAttributeIndex |-> maybeAttributeIndex ]
    IN  Return([state EXCEPT
                   !.idCounter = @ + 1,
                   !.nodes = MapSet(nodes1, nodeId, node),
                   !.nodeIdMapCollection =
                       [@ EXCEPT
                           !.parentIdById = parentIdById1,
                           !.childIdsById = childIdsById1,
                           !.contextNodeById = MapSet(@, nodeId, nodeId)]],
               nodeId)

----------------------------------------------------------------------------
(* endContext: contextNode is a Node handle, astNode an Ast.TNode record   *)
(* [id, isLeaf, maybeAttributeIndex].                                      *)

\* A faulty moveToAst: the ast node is recorded, the context stays registered.
moveToAstKeepingContext(state, astNode) ==
    [state EXCEPT
        !.nodeIdMapCollection =
            [@ EXCEPT !.astNodeById = MapSet(@, astNode.id, astNode)]]

\* Lines 142-146: move nodeId from contextNodeById to astNodeById (the
\* caller has checked that contextNodeById.delete found the id).
moveToAst(state, astNode) ==
    [state EXCEPT
        !.nodeIdMapCollection =
            [@ EXCEPT
                !.contextNodeById = MapDelete(@, astNode.id),
                !.astNodeById = MapSet(@, astNode.id, astNode)]]

\* A faulty alreadyEnded: the check is missing.
alreadyEndedUnchecked(node) == FALSE

\* Line 120: the context was already ended.
alreadyEnded(node) == node.maybeAstNode # Undefined

\* A faulty differentNodeIds: the check is missing.
differentNodeIdsUnchecked(node, astNode) == FALSE

\* Line 122: contextNode and astNode have different nodeIds.
differentNodeIds(node, astNode) == node.id # astNode.id

endContext(state, contextNode, astNode) ==
    LET nodeIdMapCollection == state.nodeIdMapCollection
        node == state.nodes[contextNode]
    IN  IF alreadyEnded(node)
        THEN Throw(state)
        ELSE IF differentNodeIds(node, astNode)
        THEN Throw(state)
        ELSE
        LET s1 == IF astNode.isLeaf
                  THEN [state EXCEPT !.leafNodeIds = Append(@, node.id)]
                  ELSE state
            maybeParentId == MapGet(nodeIdMapCollection.parentIdById, node.id)
            maybeParentNode ==
                IF maybeParentId # Undefined
                THEN MapGet(nodeIdMapCollection.contextNodeById, maybeParentId)
                ELSE Undefined
            s2 == [s1 EXCEPT !.nodes[contextNode].maybeAstNode = astNode.id]
        IN  IF ~MapHas(nodeIdMapCollection.contextNodeById, node.id)
            THEN Throw(s2)
            ELSE Return(moveToAst(s2, astNode), maybeParentNode)

----------------------------------------------------------------------------
(* removeOrReplaceChildId: returns [nodeIdMapCollection, err]. *)

\* A faulty replaceChildId: the replacement goes to the end of the list.
replaceChildIdAtEnd(beforeChildId, replacementId, afterChildId) ==
    beforeChildId \o afterChildId \o <<replacementId>>

\* Line 265: [...beforeChildId, replacementId, ...afterChildId].
replaceChildId(beforeChildId, replacementId, afterChildId) ==
    beforeChildId \o <<replacementId>> \o afterChildId

removeOrReplaceChildId(nodeIdMapCollection, parentId, childId, maybeReplacementId) ==
    LET childIdsById == nodeIdMapCollection.childIdsById
        expected == expectChildIds(childIdsById, parentId)
        childIds == expected.value
        replacementIndex == IndexOf(childIds, childId)
    IN  IF expected.err
        THEN [nodeIdMapCollection |-> nodeIdMapCollection, err |-> TRUE]
        ELSE IF replacementIndex = 0 - 1
        THEN [nodeIdMapCollection |-> nodeIdMapCollection, err |-> TRUE]
        ELSE
        LET beforeChildId == Slice(childIds, 0, replacementIndex)
            afterChildId == Slice(childIds, replacementIndex + 1, Len(childIds))
        IN  IF maybeReplacementId # Undefined
            THEN [nodeIdMapCollection |->
                      [nodeIdMapCollection EXCEPT
                          !.childIdsById =
                              MapSet(@, parentId,
                                     replaceChildId(beforeChildId, maybeReplacementId,
                                                    afterChildId)),
                          !.parentIdById = MapSet(@, maybeReplacementId, parentId)],
                  err |-> FALSE]
            ELSE [nodeIdMapCollection |->
                      [nodeIdMapCollection EXCEPT
                          !.childIdsById =
                              MapSet(@, parentId, beforeChildId \o afterChildId)],
                  err |-> FALSE]

----------------------------------------------------------------------------
(* deleteContext *)

\* A faulty inheritAttributeIndex: the child is resolved but keeps its index.
inheritAttributeIndexSkipped(state, childId, maybeAttributeIndex) ==
    IF expectXorNode(state.nodeIdMapCollection, childId).err
    THEN Throw(state)
    ELSE Return(state, Undefined)

\* Lines 203-206: the child Node inherits the attributeIndex.
inheritAttributeIndex(state, childId, maybeAttributeIndex) ==
    LET childXorNode == expectXorNode(state.nodeIdMapCollection, childId)
    IN  IF childXorNode.err
        THEN Throw(state)
        ELSE IF childXorNode.kind = "Ast"
        THEN Return([state EXCEPT
                        !.nodeIdMapCollection.astNodeById[childId].maybeAttributeIndex =
                            maybeAttributeIndex],
                    Undefined)
        ELSE Return([state EXCEPT
                        !.nodes[state.nodeIdMapCollection.contextNodeById[childId]]
                            .maybeAttributeIndex = maybeAttributeIndex],
                    Undefined)

\* A faulty removeFromMaps: it also decrements the attributeCounter of the
\* deleted node's parent, as the comment on Node.attributeCounter has it.
removeFromMapsDecrementing(state, nodeId) ==
    LET maybeParentId == MapGet(state.nodeIdMapCollection.parentIdById, nodeId)
        nodes1 == IF maybeParentId # Undefined
                  THEN [state.nodes EXCEPT ![maybeParentId].attributeCounter = @ - 1]
                  ELSE state.nodes
    IN  [state EXCEPT
            !.nodes = nodes1,
            !.nodeIdMapCollection =
                [@ EXCEPT
                    !.contextNodeById = MapDelete(@, nodeId),
                    !.childIdsById = MapDelete(@, nodeId),
                    !.parentIdById = MapDelete(@, nodeId)]]

\* A faulty removeFromMaps: the node's list of children is left behind.
removeFromMapsKeepingChildIds(state, nodeId) ==
    [state EXCEPT
        !.nodeIdMapCollection =
            [@ EXCEPT
                !.contextNodeById = MapDelete(@, nodeId),
                !.parentIdById = MapDelete(@, nodeId)]]

\* Lines 217-220: remove the node from existence.
removeFromMaps(state, nodeId) ==
    [state EXCEPT
        !.nodeIdMapCollection =
            [@ EXCEPT
                !.contextNodeById = MapDelete(@, nodeId),
                !.childIdsById = MapDelete(@, nodeId),
                !.parentIdById = MapDelete(@, nodeId)]]

\* Lines 217-223: remove the node from existence, return the node's parent.
removeNode(state, nodeId, maybeParentId) ==
    LET s == removeFromMaps(state, nodeId)
        parent == expectContextNode(s.nodeIdMapCollection.contextNodeById, maybeParentId)
    IN  IF maybeParentId # Undefined
        THEN IF parent.err THEN Throw(s) ELSE Return(s, parent.value)
        ELSE Return(s, Undefined)

\* A faulty lookupContextNode: a closed node is found as well.
lookupXorNode(state, nodeId) ==
    IF \/ MapHas(state.nodeIdMapCollection.contextNodeById, nodeId)
       \/ MapHas(state.nodeIdMapCollection.astNodeById, nodeId)
    THEN nodeId
    ELSE Undefined

\* Line 157: contextNodeById.get(nodeId).
lookupContextNode(state, nodeId) ==
    MapGet(state.nodeIdMapCollection.contextNodeById, nodeId)

\* A faulty hasOneChild: any non-empty list of children passes.
hasSomeChild(childIds) == Len(childIds) >= 1

\* Line 178: childIds.length !== 1 throws.
hasOneChild(childIds) == Len(childIds) = 1

\* A faulty promoteChild: the root handle is left as it is.
promoteChildSkipped(state, maybeChildContext) == state

\* Lines 190-194: promote the child to the root if it's a Context node.
promoteChild(state, maybeChildContext) ==
    IF maybeChildContext # Undefined
    THEN [state EXCEPT !.root.maybeNode = maybeChildContext]
    ELSE state

deleteContext(state, nodeId) ==
    LET nodeIdMapCollection == state.nodeIdMapCollection
        contextNodeById == nodeIdMapCollection.contextNodeById
        parentIdById == nodeIdMapCollection.parentIdById
        childIdsById == nodeIdMapCollection.childIdsById
        maybeNode == lookupContextNode(state, nodeId)
    IN  IF maybeNode = Undefined
        THEN Throw(state)
        ELSE
        LET node == state.nodes[maybeNode]
            leafNodeIds == state.leafNodeIds
            maybeLeafIndex == IndexOf(leafNodeIds, nodeId)
            s1 == IF maybeLeafIndex # 0 - 1
                  THEN [state EXCEPT
                           !.leafNodeIds =
                               Slice(leafNodeIds, 0, maybeLeafIndex)
                                   \o Slice(leafNodeIds, maybeLeafIndex + 1, Len(leafNodeIds))]
                  ELSE state
            maybeParentId == MapGet(parentIdById, nodeId)
        IN  IF MapHas(childIdsById, nodeId)
            THEN
                LET childIds == childIdsById[nodeId]
                IN  IF ~hasOneChild(childIds)
                    THEN Throw(s1)
                    ELSE
                    LET childId == childIds[1]
                    IN  IF maybeParentId = Undefined
                        THEN
                            LET maybeChildContext == MapGet(contextNodeById, childId)
                                s2 == promoteChild(s1, maybeChildContext)
                                s3 == inheritAttributeIndex(s2, childId, node.maybeAttributeIndex)
                            IN  IF s3.err THEN s3
                                ELSE removeNode(s3.state, nodeId, maybeParentId)
                        ELSE
                            LET replaced == removeOrReplaceChildId(
                                                nodeIdMapCollection, maybeParentId, nodeId, childId)
                                s2 == [s1 EXCEPT
                                          !.nodeIdMapCollection = replaced.nodeIdMapCollection]
                                s3 == inheritAttributeIndex(s2, childId, node.maybeAttributeIndex)
                            IN  IF replaced.err THEN Throw(s1)
                                ELSE IF s3.err THEN s3
                                ELSE removeNode(s3.state, nodeId, maybeParentId)
            ELSE IF maybeParentId # Undefined
            THEN
                LET removed == removeOrReplaceChildId(
                                   nodeIdMapCollection, maybeParentId, nodeId, Undefined)
                    s2 == [s1 EXCEPT !.nodeIdMapCollection = removed.nodeIdMapCollection]
                IN  IF removed.err THEN Throw(s1)
                    ELSE removeNode(s2, nodeId, maybeParentId)
            ELSE removeNode(s1, nodeId, maybeParentId)

\* The child whose maybeAttributeIndex deleteContext(state, nodeId) assigns at
\* lines 203-206, or undefined when the call does not get there.
inheritingChild(state, nodeId) ==
    LET nodeIdMapCollection == state.nodeIdMapCollection
        maybeParentId == MapGet(nodeIdMapCollection.parentIdById, nodeId)
        childIds == nodeIdMapCollection.childIdsById[nodeId]
    IN  IF /\ MapHas(nodeIdMapCollection.contextNodeById, nodeId)
           /\ MapHas(nodeIdMapCollection.childIdsById, nodeId)
           /\ Len(childIds) = 1
           /\ \/ maybeParentId = Undefined
              \/ ~removeOrReplaceChildId(nodeIdMapCollection, maybeParentId,
                                         nodeId, childIds[1]).err
           /\ ~expectXorNode(nodeIdMapCollection, childIds[1]).err
        THEN childIds[1]
        ELSE Undefined


----------------------------------------------------------------------------
(* deepCopy.  NodeIdMap.deepCopyCollection duplicates the four maps and    *)
(* the context Nodes in them and shares the ast nodes; the copy's Node of  *)
(* an id is the Node object of that id in the copy's own heap.             *)

deepCopyCollection(state) ==
    [ nodeIdMapCollection |-> state.nodeIdMapCollection,
      nodes |-> [ k \in { state.nodeIdMapCollection.contextNodeById[id] :
                            id \in DOMAIN state.nodeIdMapCollection.contextNodeById }
                  |-> state.nodes[k] ] ]

\* Lines 228-231: the copy's root is the copied context Node of the root's id.
rootNodeOfCopy(state, nodeIdMapCollection) ==
    IF state.root.maybeNode # Undefined
    THEN MapGet(nodeIdMapCollection.contextNodeById,
                state.nodes[state.root.maybeNode].id)
    ELSE Undefined

deepCopy(state) ==
    LET copied == deepCopyCollection(state)
        nodeIdMapCollection == copied.nodeIdMapCollection
        maybeRootNode == rootNodeOfCopy(state, nodeIdMapCollection)
    IN  [ root |-> [maybeNode |-> maybeRootNode],
          nodeIdMapCollection |-> nodeIdMapCollection,
          idCounter |-> state.idCounter,
          leafNodeIds |-> Slice(state.leafNodeIds, 0, Len(state.leafNodeIds)),
          nodes |-> copied.nodes ]

\* The ast nodes of the ids in shared are objects that session and other
\* both hold: session as other's call has left them.
withSharedAst(session, other, shared) ==
    [session EXCEPT
        !.nodeIdMapCollection.astNodeById =
            [k \in DOMAIN @ |->
                IF k \in shared THEN other.nodeIdMapCollection.astNodeById[k]
                ELSE @[k]]]

----------------------------------------------------------------------------
(* TypeUtils.nameOf for functions.  A descriptor is a record [kind,        *)
(* isNullable, parameters, returnType]; a parameter is [nameLiteral,       *)
(* isOptional, isNullable, maybeType]; a return type is a primitive        *)
(* [kind, isNullable].  Names are strings, built left to right.            *)

\* The literal word of a Type.TypeKind.
nameOfTypeKind(kind) ==
    CASE kind = "Any" -> "any"
      [] kind = "Number" -> "number"
      [] kind = "Text" -> "text"

\* A primitive type: its word, after "nullable " when it is nullable.
nameOfPrimitive(type) ==
    IF type.isNullable
    THEN "nullable " \o nameOfTypeKind(type.kind)
    ELSE nameOfTypeKind(type.kind)

\* A faulty nameOfFunctionParameter: nullable is written before optional.
nameOfFunctionParameterNullableFirst(parameter) ==
    LET partial0 == parameter.nameLiteral \o ":"
        partial1 == IF parameter.isNullable THEN partial0 \o " nullable" ELSE partial0
        partial2 == IF parameter.isOptional THEN partial1 \o " optional" ELSE partial1
    IN  partial2 \o " " \o nameOfTypeKind(parameter.maybeType)

nameOfFunctionParameter(parameter) ==
    LET partial0 == parameter.nameLiteral \o ":"
        partial1 == IF parameter.isOptional THEN partial0 \o " optional" ELSE partial0
        partial2 == IF parameter.isNullable THEN partial1 \o " nullable" ELSE partial1
    IN  partial2 \o " " \o nameOfTypeKind(parameter.maybeType)

\* parameters.map(nameOfFunctionParameter).join(", ")
RECURSIVE nameOfParameters(_)
nameOfParameters(parameters) ==
    IF Len(parameters) = 0 THEN ""
    ELSE IF Len(parameters) = 1 THEN nameOfFunctionParameter(parameters[1])
    ELSE nameOfFunctionParameter(parameters[1]) \o ", " \o nameOfParameters(Tail(parameters))

nameOf(type) ==
    LET parameters == "(" \o nameOfParameters(type.parameters) \o ")"
        returnType == nameOfPrimitive(type.returnType)
        name == IF type.kind = "DefinedFunction"
                THEN parameters \o " => " \o returnType
                ELSE "type function " \o parameters \o " " \o returnType
    IN  IF type.isNullable THEN "nullable " \o name ELSE name

----------------------------------------------------------------------------
(* The driver: one session, one call at a time.  The driver may call with  *)
(* any Node handle it was ever given and any id.  InvariantError is not    *)
(* recoverable: the driver fails the session on it, so no call follows a   *)
(* call that threw.                                                        *)

VARIABLES
    state,      \* the session State
    lastOp,     \* the last call: its name, arguments and outcome
    deleted,    \* history: the ids deleteContext removed from contextNodeById
    inherited,  \* history: the ids that inherited a maybeAttributeIndex in a collapse
    startCalls, \* history: per parent argument, the startContext calls so far
    copy,       \* the session deepCopy made of this one, once it is made
    named       \* a type descriptor and, once nameOf has run, its name

vars == <<state, lastOp, deleted, inherited, startCalls, copy, named>>

\* No type descriptor is being named.
NoType == [type |-> "none", name |-> "?"]

\* No deepCopy has been made.
NoCopy == [taken |-> FALSE, calledOn |-> "original", shared |-> {}, state |-> empty]

NoOp == [op |-> "empty", node |-> Undefined, ast |-> Undefined, isLeaf |-> FALSE,
         ret |-> Undefined, err |-> FALSE]

Init ==
    /\ state = empty
    /\ lastOp = NoOp
    /\ deleted = {}
    /\ inherited = {}
    /\ startCalls = [p \in {Undefined} \cup Ids |-> 0]
    /\ copy = NoCopy
    /\ named = NoType

\* The session has not been failed by the driver.
Running == ~lastOp.err

\* A parentless startContext result the driver has not installed yet.
PendingRoot ==
    IF lastOp.op = "startContext" /\ lastOp.node = Undefined /\ ~lastOp.err
    THEN lastOp.ret
    ELSE Undefined

\* Every Node object created so far: the handles the driver may hold.
Handles == DOMAIN state.nodes

Start(maybeParentNode) ==
    /\ Running
    /\ PendingRoot = Undefined
    /\ state.idCounter < MaxId
    /\ LET r == startContext(state, maybeParentNode)
       IN  /\ state' = r.state
           /\ lastOp' = [NoOp EXCEPT !.op = "startContext", !.node = maybeParentNode,
                                     !.ret = r.ret, !.err = r.err]
    /\ startCalls' = [startCalls EXCEPT ![maybeParentNode] = @ + 1]
    /\ UNCHANGED <<deleted, inherited>>
    /\ UNCHANGED <<copy, named>>

\* "If no parent is given: the caller is expected to install the new context
\* as root.maybeNode."
InstallRoot ==
    /\ Running
    /\ PendingRoot # Undefined
    /\ state' = [state EXCEPT !.root.maybeNode = PendingRoot]
    /\ lastOp' = [NoOp EXCEPT !.op = "installRoot", !.node = PendingRoot]
    /\ UNCHANGED <<deleted, inherited, startCalls>>
    /\ UNCHANGED <<copy, named>>

\* The driver builds the Ast.TNode of a context with the context's
\* attribute index; its id and leaf flag are free.
End(contextNode, astId, isLeaf) ==
    /\ Running
    /\ PendingRoot = Undefined
    /\ LET astNode == [ id |-> astId, isLeaf |-> isLeaf,
                        maybeAttributeIndex |->
                            state.nodes[contextNode].maybeAttributeIndex ]
           r == endContext(state, contextNode, astNode)
       IN  /\ state' = r.state
           /\ lastOp' = [NoOp EXCEPT !.op = "endContext", !.node = contextNode,
                                     !.ast = astId, !.isLeaf = isLeaf,
                                     !.ret = r.ret, !.err = r.err]
    /\ UNCHANGED <<deleted, inherited, startCalls>>
    /\ UNCHANGED <<copy, named>>

Delete(nodeId) ==
    /\ Running
    /\ PendingRoot = Undefined
    /\ LET r == deleteContext(state, nodeId)
           heir == inheritingChild(state, nodeId)
       IN  /\ state' = r.state
           /\ lastOp' = [NoOp EXCEPT !.op = "deleteContext", !.node = nodeId,
                                     !.ret = r.ret, !.err = r.err]
           /\ deleted' =
                  IF /\ MapHas(state.nodeIdMapCollection.contextNodeById, nodeId)
                     /\ ~MapHas(r.state.nodeIdMapCollection.contextNodeById, nodeId)
                  THEN deleted \cup {nodeId}
                  ELSE deleted
           /\ inherited' =
                  IF heir # Undefined THEN inherited \cup {heir} ELSE inherited
    /\ UNCHANGED startCalls
    /\ UNCHANGED <<copy, named>>

Next ==
    \/ \E p \in {Undefined} \cup Handles : Start(p)
    \/ InstallRoot
    \/ \E n \in Handles, a \in Handles, l \in BOOLEAN : End(n, a, l)
    \/ \E n \in Ids : Delete(n)

Spec == Init /\ [][Next]_vars

----------------------------------------------------------------------------
(* A driver that keeps the contract, on a larger tree: it starts contexts  *)
(* under registered contexts only, ends registered contexts with an ast    *)
(* node of the same id, and deletes registered contexts only.  The calls   *)
(* can still throw (a delete with two children, say).                      *)

\* Bound on the number of startContext calls of such a session.
MaxTreeId == 4

InitTree ==
    /\ state = empty
    /\ lastOp = NoOp
    /\ deleted = {}
    /\ inherited = {}
    /\ startCalls = [p \in 0..MaxTreeId |-> 0]
    /\ copy = NoCopy
    /\ named = NoType

Registered == DOMAIN state.nodeIdMapCollection.contextNodeById

TreeStart(maybeParentNode) ==
    /\ Running
    /\ PendingRoot = Undefined
    /\ state.idCounter < MaxTreeId
    /\ LET r == startContext(state, maybeParentNode)
       IN  /\ state' = r.state
           /\ lastOp' = [NoOp EXCEPT !.op = "startContext", !.node = maybeParentNode,
                                     !.ret = r.ret, !.err = r.err]
    /\ startCalls' = [startCalls EXCEPT ![maybeParentNode] = @ + 1]
    /\ UNCHANGED <<deleted, inherited>>
    /\ UNCHANGED <<copy, named>>

TreeEnd(contextNode, isLeaf) ==
    /\ Running
    /\ PendingRoot = Undefined
    /\ LET astNode == [ id |-> state.nodes[contextNode].id, isLeaf |-> isLeaf,
                        maybeAttributeIndex |->
                            state.nodes[contextNode].maybeAttributeIndex ]
           r == endContext(state, contextNode, astNode)
       IN  /\ state' = r.state
           /\ lastOp' = [NoOp EXCEPT !.op = "endContext", !.node = contextNode,
                                     !.ast = astNode.id, !.isLeaf = isLeaf,
                                     !.ret = r.ret, !.err = r.err]
    /\ UNCHANGED <<deleted, inherited, startCalls>>
    /\ UNCHANGED <<copy, named>>

TreeDelete(nodeId) ==
    /\ Running
    /\ PendingRoot = Undefined
    /\ LET r == deleteContext(state, nodeId)
           heir == inheritingChild(state, nodeId)
       IN  /\ state' = r.state
           /\ lastOp' = [NoOp EXCEPT !.op = "deleteContext", !.node = nodeId,
                                     !.ret = r.ret, !.err = r.err]
           /\ deleted' =
                  IF ~MapHas(r.state.nodeIdMapCollection.contextNodeById, nodeId)
                  THEN deleted \cup {nodeId}
                  ELSE deleted
           /\ inherited' =
                  IF heir # Undefined THEN inherited \cup {heir} ELSE inherited
    /\ UNCHANGED startCalls
    /\ UNCHANGED <<copy, named>>

NextTree ==
    \/ \E p \in {Undefined} \cup Registered : TreeStart(p)
    \/ InstallRoot
    \/ \E n \in Registered, l \in BOOLEAN : TreeEnd(n, l)
    \/ \E n \in Registered : TreeDelete(n)

SpecTree == InitTree /\ [][NextTree]_vars

----------------------------------------------------------------------------
(* The scenario `{1,` of the module comment (lines 23-27): a               *)
(* ListExpression context with a closed Constant, a closed Csv (of two     *)
(* closed leaves) and an open Csv.  The driver runs the calls of the       *)
(* scenario in order and may at any point go on with other calls.          *)

S2Calls ==
    << [op |-> "startContext", node |-> Undefined, isLeaf |-> FALSE],
       [op |-> "installRoot",  node |-> 1,         isLeaf |-> FALSE],
       [op |-> "startContext", node |-> 1,         isLeaf |-> FALSE],
       [op |-> "endContext",   node |-> 2,         isLeaf |-> TRUE],
       [op |-> "startContext", node |-> 1,         isLeaf |-> FALSE],
       [op |-> "startContext", node |-> 3,         isLeaf |-> FALSE],
       [op |-> "endContext",   node |-> 4,         isLeaf |-> TRUE],
       [op |-> "startContext", node |-> 3,         isLeaf |-> FALSE],
       [op |-> "endContext",   node |-> 5,         isLeaf |-> TRUE],
       [op |-> "endContext",   node |-> 3,         isLeaf |-> FALSE],
       [op |-> "startContext", node |-> 1,         isLeaf |-> FALSE] >>

\* The outcome [state, ret, err] of one call of the scenario made in state st.
S2Call(st, call) ==
    IF call.op = "startContext"
    THEN startContext(st, call.node)
    ELSE IF call.op = "endContext"
    THEN endContext(st, call.node,
                    [ id |-> call.node, isLeaf |-> call.isLeaf,
                      maybeAttributeIndex |-> st.nodes[call.node].maybeAttributeIndex ])
    ELSE Return([st EXCEPT !.root.maybeNode = call.node], Undefined)

\* The state after the first k calls of the scenario, from empty().
RECURSIVE S2State(_)
S2State(k) == IF k = 0 THEN empty ELSE S2Call(S2State(k - 1), S2Calls[k]).state

S2Step ==
    /\ Running
    /\ \E k \in 0..(Len(S2Calls) - 1) :
          /\ state = S2State(k)
          /\ LET call == S2Calls[k + 1]
                 r == S2Call(state, call)
             IN  /\ state' = r.state
                 /\ lastOp' = [NoOp EXCEPT
                                  !.op = call.op, !.node = call.node,
                                  !.ast = IF call.op = "endContext" THEN call.node
                                          ELSE Undefined,
                                  !.isLeaf = call.isLeaf,
                                  !.ret = r.ret, !.err = r.err]
                 /\ startCalls' = IF call.op = "startContext"
                                  THEN [startCalls EXCEPT ![call.node] = @ + 1]
                                  ELSE startCalls
    /\ UNCHANGED <<deleted, inherited>>
    /\ UNCHANGED <<copy, named>>

NextS2 ==
    \/ S2Step
    \/ Next

SpecS2 == Init /\ [][NextS2]_vars

----------------------------------------------------------------------------
(* Speculative parsing: the driver works on a session, at some point takes *)
(* a deepCopy of it, and from then on calls on either of the two.  It      *)
(* keeps the contract on both (open contexts only) and passes to a call on *)
(* a session the Nodes of that session.                                    *)

\* Bound on the startContext calls on each of the two sessions.
MaxCopyId == 2

\* The session a call is made on.
Session(onCopy) == IF onCopy THEN copy.state ELSE state

\* The sessions a call can be made on.
Callable == IF copy.taken THEN BOOLEAN ELSE {FALSE}

\* The call's outcome r is stored in the session called on; the other
\* session sees the shared ast nodes as the call has left them.
Called(onCopy, r) ==
    IF onCopy
    THEN /\ copy' = [copy EXCEPT !.state = r.state, !.calledOn = "copy"]
         /\ state' = withSharedAst(state, r.state, copy.shared)
    ELSE /\ state' = r.state
         /\ copy' = IF copy.taken
                    THEN [copy EXCEPT
                             !.state = withSharedAst(@, r.state, copy.shared),
                             !.calledOn = "original"]
                    ELSE copy

CopyStart(onCopy, maybeParentNode) ==
    /\ Running
    /\ PendingRoot = Undefined
    /\ Session(onCopy).idCounter < MaxCopyId
    /\ LET r == startContext(Session(onCopy), maybeParentNode)
       IN  /\ Called(onCopy, r)
           /\ lastOp' = [NoOp EXCEPT !.op = "startContext", !.node = maybeParentNode,
                                     !.ret = r.ret, !.err = r.err]
    /\ UNCHANGED <<deleted, inherited, startCalls>>
    /\ UNCHANGED named

CopyInstallRoot ==
    /\ Running
    /\ PendingRoot # Undefined
    /\ LET onCopy == copy.calledOn = "copy"
       IN  Called(onCopy,
                  Return([Session(onCopy) EXCEPT !.root.maybeNode = PendingRoot],
                         Undefined))
    /\ lastOp' = [NoOp EXCEPT !.op = "installRoot", !.node = PendingRoot]
    /\ UNCHANGED <<deleted, inherited, startCalls>>
    /\ UNCHANGED named

CopyEnd(onCopy, contextNode, isLeaf) ==
    /\ Running
    /\ PendingRoot = Undefined
    /\ LET session == Session(onCopy)
           astNode == [ id |-> session.nodes[contextNode].id, isLeaf |-> isLeaf,
                        maybeAttributeIndex |->
                            session.nodes[contextNode].maybeAttributeIndex ]
           r == endContext(session, contextNode, astNode)
       IN  /\ Called(onCopy, r)
           /\ lastOp' = [NoOp EXCEPT !.op = "endContext", !.node = contextNode,
                                     !.ast = astNode.id, !.isLeaf = isLeaf,
                                     !.ret = r.ret, !.err = r.err]
    /\ UNCHANGED <<deleted, inherited, startCalls>>
    /\ UNCHANGED named

CopyDelete(onCopy, nodeId) ==
    /\ Running
    /\ PendingRoot = Undefined
    /\ LET r == deleteContext(Session(onCopy), nodeId)
       IN  /\ Called(onCopy, r)
           /\ lastOp' = [NoOp EXCEPT !.op = "deleteContext", !.node = nodeId,
                                     !.ret = r.ret, !.err = r.err]
    /\ UNCHANGED <<deleted, inherited, startCalls>>
    /\ UNCHANGED named

DeepCopy ==
    /\ Running
    /\ PendingRoot = Undefined
    /\ ~copy.taken
    /\ copy' = [ taken |-> TRUE, calledOn |-> "original",
                 shared |-> DOMAIN state.nodeIdMapCollection.astNodeById,
                 state |-> deepCopy(state) ]
    /\ lastOp' = [NoOp EXCEPT !.op = "deepCopy"]
    /\ UNCHANGED <<state, deleted, inherited, startCalls>>
    /\ UNCHANGED named

NextCopy ==
    \/ \E onCopy \in Callable :
           \E p \in {Undefined}
                      \cup DOMAIN Session(onCopy).nodeIdMapCollection.contextNodeById :
               CopyStart(onCopy, p)
    \/ CopyInstallRoot
    \/ \E onCopy \in Callable :
           \E n \in DOMAIN Session(onCopy).nodeIdMapCollection.contextNodeById,
              l \in BOOLEAN :
               CopyEnd(onCopy, n, l)
    \/ \E onCopy \in Callable :
           \E n \in DOMAIN Session(onCopy).nodeIdMapCollection.contextNodeById :
               CopyDelete(onCopy, n)
    \/ DeepCopy

SpecCopy == Init /\ [][NextCopy]_vars

----------------------------------------------------------------------------
(* Naming function types: a descriptor is built one parameter at a time    *)
(* and then named.                                                         *)

\* Bound on the parameters of a function descriptor.
MaxParameters == 4

\* The i-th parameter is named as in the tests of TypeUtils.nameOf.
ParameterNames == <<"param1", "param2", "param3", "param4", "param5", "param6">>

NotNamed == "?"

FunctionTypes ==
    [ kind : {"DefinedFunction", "FunctionType"},
      isNullable : BOOLEAN,
      parameters : {<< >>},
      returnType : [kind : {"Any"}, isNullable : BOOLEAN] ]

InitNameOf ==
    /\ state = empty
    /\ lastOp = NoOp
    /\ deleted = {}
    /\ inherited = {}
    /\ startCalls = [p \in {Undefined} \cup Ids |-> 0]
    /\ copy = NoCopy
    /\ named \in [type : FunctionTypes, name : {NotNamed}]

AddParameter(isOptional, isNullable, maybeType) ==
    /\ named.name = NotNamed
    /\ Len(named.type.parameters) < MaxParameters
    /\ named' = [named EXCEPT
                    !.type.parameters =
                        Append(@, [ nameLiteral |-> ParameterNames[Len(@) + 1],
                                    isOptional |-> isOptional,
                                    isNullable |-> isNullable,
                                    maybeType |-> maybeType ])]
    /\ UNCHANGED <<state, lastOp, deleted, inherited, startCalls, copy>>

NameOf ==
    /\ named.name = NotNamed
    /\ named' = [named EXCEPT !.name = nameOf(named.type)]
    /\ UNCHANGED <<state, lastOp, deleted, inherited, startCalls, copy>>

NextNameOf ==
    \/ \E isOptional \in BOOLEAN, isNullable \in BOOLEAN, maybeType \in {"Number", "Text"} :
           AddParameter(isOptional, isNullable, maybeType)
    \/ NameOf

SpecNameOf == InitNameOf /\ [][NextNameOf]_vars

\* The four parameters of the tests of DefinedFunction and FunctionType.
TestParameters ==
    << [nameLiteral |-> "param1", isOptional |-> FALSE, isNullable |-> FALSE,
        maybeType |-> "Number"],
       [nameLiteral |-> "param2", isOptional |-> FALSE, isNullable |-> TRUE,
        maybeType |-> "Number"],
       [nameLiteral |-> "param3", isOptional |-> TRUE, isNullable |-> FALSE,
        maybeType |-> "Number"],
       [nameLiteral |-> "param4", isOptional |-> TRUE, isNullable |-> TRUE,
        maybeType |-> "Number"] >>

\* definedFunctionFactory / functionTypeFactory(false, parameters, returnType).
functionFactory(kind, parameters, returnTypeIsNullable) ==
    [ kind |-> kind, isNullable |-> FALSE, parameters |-> parameters,
      returnType |-> [kind |-> "Any", isNullable |-> returnTypeIsNullable] ]

----------------------------------------------------------------------------
(* The current state's maps, and what a reader of the graph sees.          *)

astNodeById == state.nodeIdMapCollection.astNodeById
contextNodeById == state.nodeIdMapCollection.contextNodeById
parentIdById == state.nodeIdMapCollection.parentIdById
childIdsById == state.nodeIdMapCollection.childIdsById

\* How often id occurs in the array arr.
Occurrences(arr, id) == Cardinality({i \in 1..Len(arr) : arr[i] = id})

\* The maybeAttributeIndex of the node an id resolves to (the ast node for
\* a closed id, the context Node otherwise).
AttributeIndexOf(st, id) ==
    IF MapHas(st.nodeIdMapCollection.astNodeById, id)
    THEN st.nodeIdMapCollection.astNodeById[id].maybeAttributeIndex
    ELSE st.nodes[id].maybeAttributeIndex

\* The number of children an id currently has.
ChildCount(st, id) ==
    IF MapHas(st.nodeIdMapCollection.childIdsById, id)
    THEN Len(st.nodeIdMapCollection.childIdsById[id])
    ELSE 0

\* The startContext calls of the session so far.
StartCallCount ==
    LET RECURSIVE Sum(_)
        Sum(S) == IF S = {} THEN 0
                  ELSE LET x == CHOOSE y \in S : TRUE
                       IN  startCalls[x] + Sum(S \ {x})
    IN  Sum(DOMAIN startCalls)

----------------------------------------------------------------------------
(* C1: after every successful startContext, endContext and deleteContext,  *)
(* every id c with parentIdById[c] = p has a list childIdsById[p], and     *)
(* that list holds c exactly once.                                         *)
C1_ParentChildSymmetry ==
    ~lastOp.err =>
        \A c \in DOMAIN parentIdById :
            /\ MapHas(childIdsById, parentIdById[c])
            /\ Occurrences(childIdsById[parentIdById[c]], c) = 1

(* C2: every allocated id is in exactly one of astNodeById and             *)
(* contextNodeById when it has not been deleted and in neither when it     *)
(* has; no id is ever in both maps.                                        *)
C2_RealmExclusivity ==
    /\ (DOMAIN astNodeById) \cap (DOMAIN contextNodeById) = {}
    /\ (DOMAIN astNodeById) \cup (DOMAIN contextNodeById) \subseteq 1..state.idCounter
    /\ \A id \in 1..state.idCounter :
           IF id \in deleted
           THEN ~MapHas(astNodeById, id) /\ ~MapHas(contextNodeById, id)
           ELSE MapHas(astNodeById, id) # MapHas(contextNodeById, id)

\* C2's case: an open, a closed and a deleted id side by side.
C2_Witness ==
    /\ \E id \in 1..state.idCounter : MapHas(astNodeById, id)
    /\ \E id \in 1..state.idCounter : MapHas(contextNodeById, id)
    /\ \E id \in 1..state.idCounter : id \in deleted

(* C3: deleteContext of an id that is in contextNodeById and has zero      *)
(* children succeeds and is a leaf deletion: the id leaves contextNodeById *)
(* and every children list, nothing takes its place.                       *)
C3_ZeroChildDeleteSucceeds ==
    [][ \A n \in Ids :
          ( /\ lastOp'.op = "deleteContext"
            /\ lastOp'.node = n
            /\ MapHas(contextNodeById, n)
            /\ ChildCount(state, n) = 0 )
          => /\ ~lastOp'.err
             /\ ~MapHas(contextNodeById', n)
             /\ \A p \in DOMAIN childIdsById' : Occurrences(childIdsById'[p], n) = 0
      ]_vars

(* C4: every node that has a parent and did not inherit its attribute      *)
(* index through a collapse has maybeAttributeIndex equal to its 0-based   *)
(* position in its parent's children list.                                 *)
C4_AttributeIndexIsPosition ==
    \A c \in DOMAIN parentIdById :
        ( /\ c \notin inherited
          /\ MapHas(childIdsById, parentIdById[c])
          /\ Occurrences(childIdsById[parentIdById[c]], c) = 1 )
        => AttributeIndexOf(state, c) = IndexOf(childIdsById[parentIdById[c]], c)

(* C5: in every state, also one left by a call that threw, an id is in     *)
(* leafNodeIds iff it is in astNodeById with isLeaf set; leafNodeIds has   *)
(* no duplicates and grows only at its end, by the id endContext closed.   *)
C5_LeafListCorrect ==
    [][ /\ \A id \in Ids :
               (Occurrences(state'.leafNodeIds, id) > 0)
               <=> (MapHas(astNodeById', id) /\ astNodeById'[id].isLeaf)
        /\ \A id \in Ids : Occurrences(state'.leafNodeIds, id) <= 1
        /\ lastOp'.op = "endContext" =>
               state'.leafNodeIds \in
                   {state.leafNodeIds, Append(state.leafNodeIds, lastOp'.node)}
      ]_vars

(* C6: with the driver installing every parentless startContext result as  *)
(* root.maybeNode, the root handle, if present, refers to an id that has   *)
(* no entry in parentIdById.                                               *)
C6_RootHasNoParent ==
    state.root.maybeNode # Undefined => ~MapHas(parentIdById, state.root.maybeNode)

C8_AstImmutable ==
    [][ \A id \in DOMAIN astNodeById :
            MapHas(astNodeById', id) => astNodeById'[id] = astNodeById[id]
      ]_vars

(* C9: the k-th startContext call of a session returns id k and leaves     *)
(* idCounter = k, an id greater than every id returned before and never    *)
(* the id of a deleted node; endContext and deleteContext leave idCounter  *)
(* unchanged.                                                              *)
C9_IdFreshness ==
    [][ /\ lastOp'.op = "startContext" =>
               /\ ~lastOp'.err
               /\ lastOp'.ret = StartCallCount'
               /\ state'.idCounter = StartCallCount'
               /\ \A id \in DOMAIN state.nodes : id < lastOp'.ret
               /\ lastOp'.ret \notin deleted
        /\ lastOp'.op \in {"endContext", "deleteContext"} =>
               state'.idCounter = state.idCounter
      ]_vars

\* C9's case: a startContext call after a node was deleted.
C9_Witness ==
    /\ lastOp.op = "startContext"
    /\ deleted # {}
    /\ lastOp.ret = 3

(* C10: startContext with a parent Node whose id is absent from            *)
(* contextNodeById fails with InvariantError and registers no new context, *)
(* parent mapping or child entry.                                          *)
C10_StartUnderAbsentParentFails ==
    [][ ( /\ lastOp'.op = "startContext"
          /\ lastOp'.node # Undefined
          /\ ~MapHas(contextNodeById, lastOp'.node) )
        => /\ lastOp'.err
           /\ contextNodeById' = contextNodeById
           /\ parentIdById' = parentIdById
           /\ childIdsById' = childIdsById
      ]_vars

----------------------------------------------------------------------------
(* C11: endContext on a context that was already closed (its maybeAstNode  *)
(* is set) fails with InvariantError and leaves astNodeById,               *)
(* contextNodeById, parentIdById, childIdsById and leafNodeIds unchanged.  *)
C11_EndTwiceFails ==
    [][ ( /\ lastOp'.op = "endContext"
          /\ state.nodes[lastOp'.node].maybeAstNode # Undefined )
        => /\ lastOp'.err
           /\ astNodeById' = astNodeById
           /\ contextNodeById' = contextNodeById
           /\ parentIdById' = parentIdById
           /\ childIdsById' = childIdsById
           /\ state'.leafNodeIds = state.leafNodeIds
      ]_vars

\* C11's case: a second endContext, with a leaf ast node of the right id, on
\* a context that is in astNodeById.
C11_Witness ==
    /\ lastOp.op = "endContext"
    /\ lastOp.err
    /\ lastOp.ast = lastOp.node
    /\ lastOp.isLeaf
    /\ MapHas(astNodeById, lastOp.node)

(* C12: endContext with an ast node whose id differs from the context's id *)
(* fails with InvariantError and changes nothing: the context stays open,  *)
(* astNodeById, contextNodeById and leafNodeIds stay as they were.         *)
C12_EndWithOtherIdFails ==
    [][ ( /\ lastOp'.op = "endContext"
          /\ lastOp'.ast # lastOp'.node )
        => /\ lastOp'.err
           /\ state' = state
      ]_vars

\* C12's case: the call was made on an open, registered context.
C12_Witness ==
    /\ lastOp.op = "endContext"
    /\ lastOp.err
    /\ lastOp.ast # lastOp.node
    /\ lastOp.isLeaf
    /\ MapHas(contextNodeById, lastOp.node)
    /\ state.nodes[lastOp.node].maybeAstNode = Undefined

(* C13: deleteContext on an open context that has two or more children     *)
(* fails with InvariantError and leaves the whole session state unchanged. *)
C13_DeleteWithSiblingsFails ==
    [][ ( /\ lastOp'.op = "deleteContext"
          /\ MapHas(contextNodeById, lastOp'.node)
          /\ ChildCount(state, lastOp'.node) >= 2 )
        => /\ lastOp'.err
           /\ state' = state
      ]_vars

\* C13's case: the call was made on a registered context with two children.
C13_Witness ==
    /\ lastOp.op = "deleteContext"
    /\ lastOp.err
    /\ MapHas(contextNodeById, lastOp.node)
    /\ ChildCount(state, lastOp.node) >= 2

(* C14: deleteContext on an id that is not in contextNodeById (never        *)
(* allocated, deleted, or closed) fails with InvariantError and changes    *)
(* nothing; so an id in astNodeById stays there, bound to the same ast     *)
(* node, in every later state.                                             *)
C14_DeleteUnregisteredFails ==
    [][ /\ ( /\ lastOp'.op = "deleteContext"
             /\ ~MapHas(contextNodeById, lastOp'.node) )
           => /\ lastOp'.err
              /\ state' = state
        /\ \A id \in DOMAIN astNodeById :
               /\ MapHas(astNodeById', id)
               /\ astNodeById'[id].id = astNodeById[id].id
               /\ astNodeById'[id].isLeaf = astNodeById[id].isLeaf
      ]_vars

\* C14's case: deleteContext was called on a closed id.
C14_Witness ==
    /\ lastOp.op = "deleteContext"
    /\ lastOp.err
    /\ MapHas(astNodeById, lastOp.node)

(* C15: endContext on a still-open context that is not registered in       *)
(* contextNodeById fails with InvariantError, and leafNodeIds, astNodeById *)
(* and the context's maybeAstNode are the same after the call as before.   *)
C15_EndUnregisteredFailsCleanly ==
    [][ ( /\ lastOp'.op = "endContext"
          /\ state.nodes[lastOp'.node].maybeAstNode = Undefined
          /\ ~MapHas(contextNodeById, lastOp'.node) )
        => /\ lastOp'.err
           /\ state'.leafNodeIds = state.leafNodeIds
           /\ astNodeById' = astNodeById
           /\ state'.nodes[lastOp'.node].maybeAstNode = Undefined
      ]_vars

(* C18: deleteContext of a parentless open context that has exactly one    *)
(* child C, C being in contextNodeById, sets root.maybeNode to C's         *)
(* context.                                                                *)
C18_RootCollapsePromotesOpenChild ==
    [][ ( /\ lastOp'.op = "deleteContext"
          /\ MapHas(contextNodeById, lastOp'.node)
          /\ ~MapHas(parentIdById, lastOp'.node)
          /\ ChildCount(state, lastOp'.node) = 1
          /\ MapHas(contextNodeById, childIdsById[lastOp'.node][1]) )
        => state'.root.maybeNode = contextNodeById[childIdsById[lastOp'.node][1]]
      ]_vars

\* C18's case: the root was deleted and its open child is the root now.
C18_Witness ==
    /\ lastOp.op = "deleteContext"
    /\ ~lastOp.err
    /\ lastOp.node \in deleted
    /\ state.root.maybeNode # lastOp.node
    /\ MapHas(contextNodeById, state.root.maybeNode)
    /\ MapGet(parentIdById, state.root.maybeNode) = lastOp.node

(* C19: after deleteContext of the root context whose single child C is in *)
(* astNodeById, the root handle refers to C's id, so resolving the root    *)
(* handle's id (expectXorNode) yields the closed node C.                   *)
C19_RootCollapseOntoClosedChild ==
    [][ ( /\ lastOp'.op = "deleteContext"
          /\ MapHas(contextNodeById, lastOp'.node)
          /\ state.root.maybeNode = lastOp'.node
          /\ ~MapHas(parentIdById, lastOp'.node)
          /\ ChildCount(state, lastOp'.node) = 1
          /\ MapHas(astNodeById, childIdsById[lastOp'.node][1]) )
        => /\ state'.root.maybeNode = childIdsById[lastOp'.node][1]
           /\ ~expectXorNode(state'.nodeIdMapCollection, state'.root.maybeNode).err
      ]_vars

(* C20, as claimed: when deleteContext removes a parentless context with   *)
(* exactly one child, the child's attribute index after the call is the    *)
(* value the child had before the call.                                    *)
C20_RootCollapseKeepsChildIndex ==
    [][ ( /\ lastOp'.op = "deleteContext"
          /\ MapHas(contextNodeById, lastOp'.node)
          /\ ~MapHas(parentIdById, lastOp'.node)
          /\ ChildCount(state, lastOp'.node) = 1 )
        => AttributeIndexOf(state', childIdsById[lastOp'.node][1])
               = AttributeIndexOf(state, childIdsById[lastOp'.node][1])
      ]_vars

(* C20, amended: when deleteContext removes a parentless context with      *)
(* exactly one child, the child's attribute index after the call is the    *)
(* attribute index the deleted context had before the call.                *)
C20_RootCollapseChildInheritsIndex ==
    [][ ( /\ lastOp'.op = "deleteContext"
          /\ MapHas(contextNodeById, lastOp'.node)
          /\ ~MapHas(parentIdById, lastOp'.node)
          /\ ChildCount(state, lastOp'.node) = 1 )
        => AttributeIndexOf(state', childIdsById[lastOp'.node][1])
               = state.nodes[lastOp'.node].maybeAttributeIndex
      ]_vars

\* C20's case: a parentless context was deleted and the child it had, which
\* was started with an index, has inherited the absent index.
C20_Witness ==
    /\ lastOp.op = "deleteContext"
    /\ ~lastOp.err
    /\ lastOp.node \in deleted
    /\ state.nodes[lastOp.node].maybeAttributeIndex = NoIndex
    /\ \E c \in inherited :
           /\ MapGet(parentIdById, c) = lastOp.node
           /\ AttributeIndexOf(state, c) = NoIndex

----------------------------------------------------------------------------
(* C16: the scenario `{1,` run from empty() yields contextNodeById keys    *)
(* {1, 6}, astNodeById keys {2, 3, 4, 5}, childIdsById[1] = [2, 3, 6],     *)
(* leafNodeIds = [2, 4, 5] and idCounter = 6.                              *)
C16_ScenarioS2 ==
    state = S2State(Len(S2Calls)) =>
        /\ DOMAIN contextNodeById = {1, 6}
        /\ DOMAIN astNodeById = {2, 3, 4, 5}
        /\ MapHas(childIdsById, 1)
        /\ childIdsById[1] = <<2, 3, 6>>
        /\ state.leafNodeIds = <<2, 4, 5>>
        /\ state.idCounter = 6

\* C16's case: the last call of the scenario has been made.
C16_Witness ==
    /\ state = S2State(Len(S2Calls))
    /\ lastOp.op = "startContext"
    /\ lastOp.node = 1
    /\ lastOp.ret = 6

----------------------------------------------------------------------------
(* C23: startContext returns a new open context n, registered in           *)
(* contextNodeById with attributeCounter 0 and no ast node.  With an open  *)
(* parent P it sets parentIdById[n] = P, appends n to childIdsById[P]      *)
(* after the earlier elements, gives n the attribute index P's             *)
(* attributeCounter had and adds exactly 1 to that counter.  With no       *)
(* parent it adds nothing to parentIdById or childIdsById, leaves n's      *)
(* attribute index undefined and leaves the root handle as it is.          *)
C23_StartContextEffect ==
    [][ (lastOp'.op = "startContext")
        => LET n == lastOp'.ret
               P == lastOp'.node
           IN  /\ ~lastOp'.err
               /\ n \notin DOMAIN state.nodes
               /\ ~MapHas(contextNodeById, n)
               /\ MapHas(contextNodeById', n)
               /\ ~MapHas(astNodeById', n)
               /\ state'.nodes[n].attributeCounter = 0
               /\ state'.nodes[n].maybeAstNode = Undefined
               /\ (P # Undefined /\ MapHas(contextNodeById, P))
                      => /\ MapGet(parentIdById', n) = P
                         /\ MapHas(childIdsById', P)
                         /\ childIdsById'[P] =
                                (IF MapHas(childIdsById, P) THEN childIdsById[P]
                                 ELSE << >>) \o <<n>>
                         /\ state'.nodes[n].maybeAttributeIndex
                                = state.nodes[P].attributeCounter
                         /\ state'.nodes[P].attributeCounter
                                = state.nodes[P].attributeCounter + 1
               /\ (P = Undefined)
                      => /\ parentIdById' = parentIdById
                         /\ childIdsById' = childIdsById
                         /\ state'.nodes[n].maybeAttributeIndex = NoIndex
                         /\ state'.root = state.root
      ]_vars

\* C23's case: a context was started under an open parent that had a child.
C23_Witness ==
    /\ lastOp.op = "startContext"
    /\ lastOp.node # Undefined
    /\ MapHas(contextNodeById, lastOp.node)
    /\ ChildCount(state, lastOp.node) >= 2
    /\ childIdsById[lastOp.node][ChildCount(state, lastOp.node)] = lastOp.ret
    /\ MapHas(contextNodeById, lastOp.ret)

(* C24: a successful endContext(contextNode, astNode) moves exactly        *)
(* contextNode.id from contextNodeById to astNodeById, sets the context's  *)
(* maybeAstNode, appends the id to leafNodeIds iff astNode.isLeaf, and     *)
(* leaves parentIdById, childIdsById, idCounter, the root handle and all   *)
(* other nodes unchanged.                                                  *)
C24_EndContextEffect ==
    [][ (lastOp'.op = "endContext" /\ ~lastOp'.err)
        => LET c == lastOp'.node
               id == state.nodes[c].id
           IN  /\ MapHas(contextNodeById, id)
               /\ ~MapHas(astNodeById, id)
               /\ DOMAIN contextNodeById' = (DOMAIN contextNodeById) \ {id}
               /\ \A k \in DOMAIN contextNodeById' :
                      contextNodeById'[k] = contextNodeById[k]
               /\ DOMAIN astNodeById' = (DOMAIN astNodeById) \cup {id}
               /\ \A k \in DOMAIN astNodeById : astNodeById'[k] = astNodeById[k]
               /\ astNodeById'[id].id = lastOp'.ast
               /\ state'.nodes[c] = [state.nodes[c] EXCEPT !.maybeAstNode = lastOp'.ast]
               /\ state'.leafNodeIds =
                      (IF lastOp'.isLeaf THEN Append(state.leafNodeIds, id)
                       ELSE state.leafNodeIds)
               /\ parentIdById' = parentIdById
               /\ childIdsById' = childIdsById
               /\ state'.idCounter = state.idCounter
               /\ state'.root = state.root
               /\ DOMAIN state'.nodes = DOMAIN state.nodes
               /\ \A k \in (DOMAIN state.nodes) \ {c} : state'.nodes[k] = state.nodes[k]
      ]_vars

\* C24's case: a second leaf was ended and stands last in leafNodeIds, and
\* another context is still open.
C24_Witness ==
    /\ lastOp.op = "endContext"
    /\ ~lastOp.err
    /\ lastOp.isLeaf
    /\ Len(state.leafNodeIds) >= 2
    /\ state.leafNodeIds[Len(state.leafNodeIds)] = lastOp.node
    /\ MapHas(astNodeById, lastOp.node)
    /\ DOMAIN contextNodeById # {}

(* C25: deleteContext of an open context with at most one child returns    *)
(* the context registered under parentIdById[nodeId] when the node has a   *)
(* parent and nothing when it has none, and does not fail because of the   *)
(* parent's state.                                                         *)
C25_DeleteReturnsParent ==
    [][ \A n \in DOMAIN contextNodeById :
          ( /\ lastOp'.op = "deleteContext"
            /\ lastOp'.node = n
            /\ ChildCount(state, n) <= 1 )
          => /\ ~lastOp'.err
             /\ ~MapHas(parentIdById, n) => lastOp'.ret = Undefined
             /\ ( /\ MapHas(parentIdById, n)
                  /\ MapHas(contextNodeById, parentIdById[n]) )
                    => lastOp'.ret = contextNodeById[parentIdById[n]]
      ]_vars

(* C26: after a successful deleteContext(nodeId), nodeId is no key of      *)
(* contextNodeById, childIdsById or parentIdById, no element of any        *)
(* children list and not in leafNodeIds, and no other id has left          *)
(* contextNodeById or astNodeById.                                         *)
C26_DeleteRemovesOnlyNode ==
    [][ (lastOp'.op = "deleteContext" /\ ~lastOp'.err)
        => LET n == lastOp'.node
           IN  /\ ~MapHas(contextNodeById', n)
               /\ ~MapHas(childIdsById', n)
               /\ ~MapHas(parentIdById', n)
               /\ \A p \in DOMAIN childIdsById' : Occurrences(childIdsById'[p], n) = 0
               /\ Occurrences(state'.leafNodeIds, n) = 0
               /\ DOMAIN contextNodeById' = (DOMAIN contextNodeById) \ {n}
               /\ DOMAIN astNodeById' = DOMAIN astNodeById
      ]_vars

\* C26's case: a context with a parent and a child was deleted, and the
\* child, which had children of its own, is registered under the parent.
C26_Witness ==
    /\ lastOp.op = "deleteContext"
    /\ ~lastOp.err
    /\ lastOp.node \in deleted
    /\ lastOp.ret # Undefined
    /\ \E B \in inherited :
           /\ MapGet(parentIdById, B) = lastOp.ret
           /\ MapHas(childIdsById, lastOp.ret)
           /\ Occurrences(childIdsById[lastOp.ret], B) = 1
           /\ B > lastOp.node

\* The attribute indices of the children of p, in list order.
SiblingIndices(st, p) ==
    [i \in 1..ChildCount(st, p) |->
        AttributeIndexOf(st, st.nodeIdMapCollection.childIdsById[p][i])]

\* The entries of the array arr other than id, in their order.
Without(arr, id) == SelectSeq(arr, LAMBDA x : x # id)

(* C27: in every reachable state and for every parent p, the attribute     *)
(* indices of the ids in childIdsById[p] are all defined, pairwise         *)
(* distinct and strictly increasing in list order; replacing a deleted     *)
(* node by its single child and deleting a leaf change neither the order   *)
(* nor the attribute index of the remaining siblings: of every list only   *)
(* the id of the call may go and its single child may come in.             *)
C27_SiblingOrdering ==
    [][ /\ \A p \in DOMAIN childIdsById' :
               LET indices == SiblingIndices(state', p)
               IN  /\ \A i \in DOMAIN indices : indices[i] # NoIndex
                   /\ \A i, j \in DOMAIN indices : i < j => indices[i] < indices[j]
        /\ (lastOp'.op = "deleteContext")
           => \A p \in (DOMAIN childIdsById) \ {lastOp'.node} :
                  LET n == lastOp'.node
                      heir == inheritingChild(state, n)
                      before == Without(childIdsById[p], n)
                  IN  /\ MapHas(childIdsById', p)
                      /\ Without(Without(childIdsById'[p], heir), n) = before
                      /\ \A i \in DOMAIN before :
                             AttributeIndexOf(state', before[i])
                                 = AttributeIndexOf(state, before[i])
      ]_vars

\* C27's case: a context between two siblings was replaced by its child.
C27_Witness ==
    /\ lastOp.op = "deleteContext"
    /\ ~lastOp.err
    /\ lastOp.ret # Undefined
    /\ ChildCount(state, lastOp.ret) = 2
    /\ LET B == childIdsById[lastOp.ret][1]
           S == childIdsById[lastOp.ret][2]
       IN  /\ B \in inherited
           /\ S \notin inherited
           /\ B > S
           /\ AttributeIndexOf(state, B) < AttributeIndexOf(state, S)

\* The ids in astNodeById or contextNodeById.
Live == (DOMAIN astNodeById) \cup (DOMAIN contextNodeById)

(* C29: in every state reached by successful operations on open parents,   *)
(* every key of childIdsById is in contextNodeById or astNodeById, every   *)
(* id c listed in childIdsById[p] is in contextNodeById or astNodeById and *)
(* has parentIdById[c] = p, and no id is in two children lists or twice in *)
(* one.                                                                    *)
C29_ChildrenToParent ==
    ~lastOp.err =>
        /\ DOMAIN childIdsById \subseteq Live
        /\ \A p \in DOMAIN childIdsById :
               \A i \in 1..Len(childIdsById[p]) :
                   LET c == childIdsById[p][i]
                   IN  /\ c \in Live
                       /\ MapGet(parentIdById, c) = p
                       /\ Occurrences(childIdsById[p], c) = 1
                       /\ \A q \in (DOMAIN childIdsById) \ {p} :
                              Occurrences(childIdsById[q], c) = 0

\* C29's case: after an interior collapse the closed parent of the
\* inheriting child lists it, next to a sibling.
C29_Witness ==
    /\ ~lastOp.err
    /\ \E B \in inherited :
           /\ MapHas(parentIdById, B)
           /\ MapHas(childIdsById, parentIdById[B])
           /\ MapHas(astNodeById, parentIdById[B])
           /\ Occurrences(childIdsById[parentIdById[B]], B) = 1
           /\ ChildCount(state, parentIdById[B]) = 2

(* C30: in every reachable state parentIdById[c] < c for every id c in     *)
(* parentIdById, so the parent chain of every node ends; re-parenting a    *)
(* child to its grandparent in an interior collapse keeps the ordering.    *)
C30_ParentBeforeChild ==
    \A c \in DOMAIN parentIdById : parentIdById[c] < c

\* C30's case: an interior collapse has re-parented a child to its
\* grandparent.
C30_Witness ==
    /\ lastOp.op = "deleteContext"
    /\ lastOp.node \in deleted
    /\ \E B \in inherited :
           /\ MapHas(parentIdById, B)
           /\ parentIdById[B] < lastOp.node
           /\ lastOp.node < B
           /\ MapHas(childIdsById, parentIdById[B])
           /\ Occurrences(childIdsById[parentIdById[B]], B) = 1

\* What a reader sees of a session: the four maps, leafNodeIds, idCounter,
\* the root handle and every context Node's attributeCounter and
\* maybeAttributeIndex.
Observed(st) ==
    [ nodeIdMapCollection |-> st.nodeIdMapCollection,
      leafNodeIds |-> st.leafNodeIds,
      idCounter |-> st.idCounter,
      root |-> st.root,
      attributes |-> [k \in DOMAIN st.nodes |->
                         <<st.nodes[k].attributeCounter,
                           st.nodes[k].maybeAttributeIndex>>] ]

(* C21: after copy = deepCopy(state), startContext, endContext and         *)
(* deleteContext calls on the copy leave the original's four maps,         *)
(* leafNodeIds, idCounter, root handle and every context's                 *)
(* attributeCounter and attribute index unchanged, and calls on the        *)
(* original leave the copy unchanged.                                      *)
C21_DeepCopyIndependence ==
    [][ ( /\ copy.taken
          /\ lastOp'.op \in {"startContext", "endContext", "deleteContext"} )
        => IF copy'.calledOn = "copy"
           THEN Observed(state') = Observed(state)
           ELSE Observed(copy'.state) = Observed(copy.state)
      ]_vars

(* C28: for every reachable state whose root handle is present, deepCopy   *)
(* returns a state whose root handle is present and refers to the same id, *)
(* also when the root context has been closed by endContext, and whose     *)
(* idCounter, leafNodeIds and map contents equal the original's.           *)
C28_DeepCopyPreservesRoot ==
    (lastOp.op = "deepCopy" /\ state.root.maybeNode # Undefined)
    => /\ copy.state.root.maybeNode # Undefined
       /\ copy.state.nodes[copy.state.root.maybeNode].id
              = state.nodes[state.root.maybeNode].id
       /\ copy.state.idCounter = state.idCounter
       /\ copy.state.leafNodeIds = state.leafNodeIds
       /\ copy.state.nodeIdMapCollection = state.nodeIdMapCollection

(* C22: each parameter of a function type is named `name: `, then          *)
(* `optional ` when it is optional, then `nullable ` when it is nullable,  *)
(* then its type name; the parameters are joined by `, ` in declared       *)
(* order; a DefinedFunction is named `(params) => returnType`, a           *)
(* FunctionType `type function (params) returnType`, and a nullable        *)
(* descriptor has `nullable ` before it.  The names the tests of           *)
(* TypeUtils.nameOf expect are instances.                                  *)
C22_FunctionNames ==
    LET type == named.type
        Parameter(p) ==
            p.nameLiteral \o ": "
                \o (IF p.isOptional THEN "optional " ELSE "")
                \o (IF p.isNullable THEN "nullable " ELSE "")
                \o nameOfTypeKind(p.maybeType)
        RECURSIVE Joined(_)
        Joined(k) ==
            IF k = 0 THEN ""
            ELSE IF k = 1 THEN Parameter(type.parameters[1])
            ELSE Joined(k - 1) \o ", " \o Parameter(type.parameters[k])
        params == Joined(Len(type.parameters))
        returnType == nameOfPrimitive(type.returnType)
    IN  (named.name # NotNamed) =>
            /\ named.name =
                   (IF type.isNullable THEN "nullable " ELSE "")
                       \o (IF type.kind = "DefinedFunction"
                           THEN "(" \o params \o ") => " \o returnType
                           ELSE "type function (" \o params \o ") " \o returnType)
            /\ (type = functionFactory("DefinedFunction", << >>, FALSE))
                   => named.name = "() => any"
            /\ (type = functionFactory("DefinedFunction", << >>, TRUE))
                   => named.name = "() => nullable any"
            /\ (type = functionFactory("DefinedFunction", TestParameters, FALSE))
                   => named.name = "(param1: number, param2: nullable number, param3: optional number, param4: optional nullable number) => any"
            /\ (type = functionFactory("FunctionType", << >>, FALSE))
                   => named.name = "type function () any"
            /\ (type = functionFactory("FunctionType", TestParameters, FALSE))
                   => named.name = "type function (param1: number, param2: nullable number, param3: optional number, param4: optional nullable number) any"

\* C22's case: the four-parameter function of the tests has been named.
C22_Witness ==
    /\ named.name # NotNamed
    /\ named.type.kind = "DefinedFunction"
    /\ named.type.parameters = TestParameters
    /\ ~named.type.isNullable

====
